---- MODULE Spec2Model ----
(***************************************************************************)
(* A model of the LokiBot C2 wire codec: the command codec                 *)
(* (Operation / Response encode and decode, src/src/encoding.rs), the      *)
(* BodyReader field reader and the inbound packet parser                   *)
(* (src/src/packets.rs).                                                   *)
(*                                                                         *)
(* Representation of the machine integers.  TLC's integers are 32-bit      *)
(* signed, so a u32 cannot be a TLC number.  A u8 and a u16 are numbers;   *)
(* a u32 is a record [lo, hi] of two 16-bit halves (value lo + 2^16 * hi); *)
(* a usize is taken to be 64 bits wide and is a tuple of four 16-bit       *)
(* limbs, least significant first.  The conversions between bytes and      *)
(* these values are computed limb by limb, with the width of the source's  *)
(* type.                                                                   *)
(*                                                                         *)
(* A Rust String is a sequence of Unicode scalar values; as_bytes() is its *)
(* UTF-8 encoding and len() the length of that encoding.                   *)
(*                                                                         *)
(* What the standard library leaves unspecified is a choice of the build:  *)
(* after a read_exact that fails, the cursor of a BodyReader is either     *)
(* where it was or at the end of the buffer (eofOnErr).  Allocations are   *)
(* taken to succeed: the vectors the decoders size from a length or count  *)
(* of the input, before the bytes are read, are not modelled as memory.    *)
(***************************************************************************)
EXTENDS Integers, Sequences, FiniteSets, TLC

VARIABLES
    pc,          \* the call that produced this state ("init" before any call)
    build,       \* TRUE: arithmetic overflow checks are compiled in (debug profile)
    opIn,        \* the Operation handed to the encoder
    opsIn,       \* the Response (its ops) handed to the encoder
    lenIn,       \* arg.len() of the Operation whose record header is written (a usize)
    bytesIn,     \* the byte buffer handed to a decoder
    bytesOut,    \* what an encoder returned: [tag, bytes]
    opOut,       \* what Operation::try_from returned
    respOut,     \* what Response::try_from returned
    pktOut,      \* what Packet::try_from returned
    eofOnErr,    \* TRUE: Cursor::read_exact of the build moves to the end on failure
    bodyReader,  \* the BodyReader the reads are made on: [buf, pos]
    readOut      \* the last read on it: [op, n, from, ok, val]

vars == <<pc, build, opIn, opsIn, lenIn, bytesIn, bytesOut, opOut, respOut, pktOut,
          eofOnErr, bodyReader, readOut>>

-----------------------------------------------------------------------------
(* Bounds of the model *)

\* longest argument (in characters) of an Operation handed to the encoder
MaxArgChars == 2
\* longest argument body (in bytes) of a hand-built operation record
MaxBodyLen == 3
\* most operations in a Response handed to the encoder
MaxOps == 2
\* most extra bytes appended after a buffer
MaxExtra == 1
\* longest argument (in characters) of an Operation in a Response
MaxRespArgChars == 1
\* longest blob of an Information packet
MaxBlobLen == 1
\* largest opcode word of the sweep over small values
MaxOpWord == 255
\* longest text after the byte order mark in the string fields read
MaxTextBytes == 2
\* largest N of read_bytes_exact::<N>
MaxReadLen == 2

-----------------------------------------------------------------------------
(* Machine integers *)

Pow16 == 65536

U16Max == 65535

\* the u32 with value n, for a number n TLC can hold
U32(n) == [lo |-> n % Pow16, hi |-> (n \div Pow16) % Pow16]

\* u32::MAX
U32Max == [lo |-> U16Max, hi |-> U16Max]

\* u32::from_le_bytes
U32FromLeBytes(b) == [lo |-> b[1] + 256 * b[2], hi |-> b[3] + 256 * b[4]]

\* u32::to_le_bytes
U32ToLeBytes(w) == <<w.lo % 256, w.lo \div 256, w.hi % 256, w.hi \div 256>>

\* u16::from_le_bytes
U16FromLeBytes(b) == b[1] + 256 * b[2]

\* (w as usize) > n, for a u32 w and a number n
U32GtNat(w, n) ==
    \/ w.hi > n \div Pow16
    \/ w.hi = n \div Pow16 /\ w.lo > n % Pow16

\* (w as usize) = n, for a u32 w and a number n
U32EqNat(w, n) == w.hi = n \div Pow16 /\ w.lo = n % Pow16

\* the usize with value n, for a number n TLC can hold
Usize(n) == <<n % Pow16, (n \div Pow16) % Pow16, 0, 0>>

\* `x as u32` for a usize x: the low 32 bits
UsizeAsU32(x) == [lo |-> x[1], hi |-> x[2]]

\* `w + 1` on a u32.  The sum overflows exactly at u32::MAX; with overflow
\* checks compiled in the addition panics, without them it wraps to 0.
U32AddOne(w, checks) ==
    IF w = U32Max
    THEN IF checks THEN [panic |-> TRUE, val |-> U32(0)]
                   ELSE [panic |-> FALSE, val |-> U32(0)]
    ELSE IF w.lo = U16Max
         THEN [panic |-> FALSE, val |-> [lo |-> 0, hi |-> w.hi + 1]]
         ELSE [panic |-> FALSE, val |-> [lo |-> w.lo + 1, hi |-> w.hi]]

-----------------------------------------------------------------------------
(* Sequences *)

Take(s, n) == SubSeq(s, 1, n)

Drop(s, n) == SubSeq(s, n + 1, Len(s))

RECURSIVE Flatten(_)
Flatten(ss) == IF ss = <<>> THEN <<>> ELSE Head(ss) \o Flatten(Tail(ss))

\* all sequences over S of length at most n
SeqsUpTo(S, n) == UNION {[1..k -> S] : k \in 0..n}

-----------------------------------------------------------------------------
(* UTF-8 *)

\* U+FFFD REPLACEMENT CHARACTER
Replacement == 65533

\* the UTF-8 encoding of one scalar value (what String holds for it)
Utf8EncodeChar(c) ==
    IF c < 128 THEN <<c>>
    ELSE IF c < 2048 THEN <<192 + (c \div 64), 128 + (c % 64)>>
    ELSE IF c < 65536
         THEN <<224 + (c \div 4096), 128 + ((c \div 64) % 64), 128 + (c % 64)>>
    ELSE <<240 + (c \div 262144), 128 + ((c \div 4096) % 64),
           128 + ((c \div 64) % 64), 128 + (c % 64)>>

\* String::as_bytes
RECURSIVE StrAsBytes(_)
StrAsBytes(s) ==
    IF s = <<>> THEN <<>> ELSE Utf8EncodeChar(Head(s)) \o StrAsBytes(Tail(s))

\* String::len: the length in bytes
StrLen(s) == Len(StrAsBytes(s))

\* number of bytes the lead byte b announces (0: b cannot start a sequence)
Utf8Width(b) ==
    IF b < 128 THEN 1
    ELSE IF b >= 194 /\ b <= 223 THEN 2
    ELSE IF b >= 224 /\ b <= 239 THEN 3
    ELSE IF b >= 240 /\ b <= 244 THEN 4
    ELSE 0

\* the range the second byte of a sequence led by b must lie in
Utf8SecondLo(b) == IF b = 224 THEN 160 ELSE IF b = 240 THEN 144 ELSE 128

Utf8SecondHi(b) == IF b = 237 THEN 159 ELSE IF b = 244 THEN 143 ELSE 191

\* is byte k of the sequence starting at b[i] an acceptable continuation
Utf8ContOk(b, i, k) ==
    /\ i + k - 1 <= Len(b)
    /\ IF k = 2
       THEN b[i + 1] >= Utf8SecondLo(b[i]) /\ b[i + 1] <= Utf8SecondHi(b[i])
       ELSE b[i + k - 1] >= 128 /\ b[i + k - 1] <= 191

\* the longest prefix of a well-formed sequence found at b[i]: its length
\* (at least 1) and whether it is a whole sequence
Utf8Scan(b, i) ==
    LET w == Utf8Width(b[i])
        good == {k \in 1..w : \A j \in 2..k : Utf8ContOk(b, i, j)}
        n == IF w = 0 THEN 1 ELSE CHOOSE k \in good : \A m \in good : m <= k
    IN  [len |-> n, whole |-> w > 0 /\ n = w]

\* the scalar value of the whole sequence of n bytes at b[i]
Utf8Value(b, i, n) ==
    IF n = 1 THEN b[i]
    ELSE IF n = 2 THEN (b[i] - 192) * 64 + (b[i + 1] - 128)
    ELSE IF n = 3
         THEN (b[i] - 224) * 4096 + (b[i + 1] - 128) * 64 + (b[i + 2] - 128)
    ELSE (b[i] - 240) * 262144 + (b[i + 1] - 128) * 4096
         + (b[i + 2] - 128) * 64 + (b[i + 3] - 128)

\* String::from_utf8: the string, or failure on the first ill-formed sequence
RECURSIVE Utf8DecodeFrom(_, _)
Utf8DecodeFrom(b, i) ==
    IF i > Len(b) THEN [ok |-> TRUE, str |-> <<>>]
    ELSE LET sc == Utf8Scan(b, i)
         IN  IF ~sc.whole THEN [ok |-> FALSE, str |-> <<>>]
             ELSE LET r == Utf8DecodeFrom(b, i + sc.len)
                  IN  [ok |-> r.ok,
                       str |-> <<Utf8Value(b, i, sc.len)>> \o r.str]

StringFromUtf8(b) ==
    LET r == Utf8DecodeFrom(b, 1)
    IN  IF r.ok THEN r ELSE [ok |-> FALSE, str |-> <<>>]

-----------------------------------------------------------------------------
(* OpCode *)

OpCode == {"StealInfo", "DownloadExe1", "DownloadDll", "DownloadExe2",
           "DeleteFile", "ExitProcess", "DownloadExe3", "SetGlobal",
           "MoveAndExit"}

\* the discriminant of each variant of the enum
OpCodeDiscriminant(o) ==
    CASE o = "StealInfo" -> 10
      [] o = "DownloadExe1" -> 0
      [] o = "DownloadDll" -> 1
      [] o = "DownloadExe2" -> 2
      [] o = "DeleteFile" -> 8
      [] o = "ExitProcess" -> 14
      [] o = "DownloadExe3" -> 15
      [] o = "SetGlobal" -> 16
      [] o = "MoveAndExit" -> 17

\* `opcode as u32`
OpCodeAsU32(o) == U32(OpCodeDiscriminant(o))

\* the match arms of try_from, in the order of the source
OpCodeArms == <<"StealInfo", "DownloadExe1", "DownloadDll", "DownloadExe2",
                "DeleteFile", "ExitProcess", "DownloadExe3", "SetGlobal",
                "MoveAndExit">>

\* try_from with the last arm of the match missing
OpCodeTryFromShort(value) ==
    LET hits == {k \in 1..(Len(OpCodeArms) - 1) : value = OpCodeAsU32(OpCodeArms[k])}
    IN  IF hits = {} THEN [ok |-> FALSE]
        ELSE [ok |-> TRUE,
              opcode |-> OpCodeArms[CHOOSE k \in hits : \A m \in hits : k <= m]]

\* impl TryFrom<u32> for OpCode: the first arm whose guard holds
OpCodeTryFrom(value) ==
    LET hits == {k \in 1..Len(OpCodeArms) : value = OpCodeAsU32(OpCodeArms[k])}
    IN  IF hits = {} THEN [ok |-> FALSE]
        ELSE [ok |-> TRUE,
              opcode |-> OpCodeArms[CHOOSE k \in hits : \A m \in hits : k <= m]]

-----------------------------------------------------------------------------
(* Operation: an OpCode and a text argument *)

Operation(opcode, arg) == [opcode |-> opcode, arg |-> arg]

BlankWord == <<0, 0, 0, 0>>

\* the declared length written without the terminator counted
ArgLenWordNoNul(len, checks) == [panic |-> FALSE, val |-> UsizeAsU32(len)]

\* `value.arg.len() as u32 + 1`: the cast keeps the low 32 bits of the
\* usize, the addition is a u32 addition
ArgLenWord(len, checks) == U32AddOne(UsizeAsU32(len), checks)

\* the four words written before the argument, for an argument of len bytes
OperationHeader(opcode, len, checks) ==
    LET w == ArgLenWord(len, checks)
    IN  [panic |-> w.panic,
         bytes |-> BlankWord \o U32ToLeBytes(OpCodeAsU32(opcode))
                   \o BlankWord \o U32ToLeBytes(w.val)]

\* impl From<Operation> for Vec<u8>
OperationIntoBytes(op, checks) ==
    LET arg == StrAsBytes(op.arg)
        h == OperationHeader(op.opcode, Usize(Len(arg)), checks)
    IN  IF h.panic THEN [tag |-> "panic", bytes |-> <<>>]
        ELSE [tag |-> "ok", bytes |-> h.bytes \o arg \o <<0>>]

\* Read::read_exact on a byte slice, for n bytes: the bytes and the slice
\* left, or failure when fewer than n remain
SliceReadExact(s, n) ==
    IF n > Len(s) THEN [ok |-> FALSE, data |-> <<>>, rest |-> <<>>]
    ELSE [ok |-> TRUE, data |-> Take(s, n), rest |-> Drop(s, n)]

\* the same for a count held in a u32 (`n as usize`)
SliceReadExactU32(s, w) ==
    IF U32GtNat(w, Len(s)) THEN [ok |-> FALSE, data |-> <<>>, rest |-> <<>>]
    ELSE SliceReadExact(s, w.lo + Pow16 * w.hi)

\* a CString built from any bytes that end in a zero byte
CStringFromVecWithNulLax(v) ==
    IF v # <<>> /\ v[Len(v)] = 0
    THEN [ok |-> TRUE, bytes |-> Take(v, Len(v) - 1)]
    ELSE [ok |-> FALSE, bytes |-> <<>>]

\* CString::from_vec_with_nul: the only zero byte must be the last byte
CStringFromVecWithNul(v) ==
    LET nuls == {i \in 1..Len(v) : v[i] = 0}
    IN  IF nuls = {Len(v)} /\ v # <<>>
        THEN [ok |-> TRUE, bytes |-> Take(v, Len(v) - 1)]
        ELSE [ok |-> FALSE, bytes |-> <<>>]

\* CString::into_string: the bytes before the terminator, as UTF-8
CStringIntoString(bytes) == StringFromUtf8(bytes)

OpErr == [ok |-> FALSE, op |-> Operation("DownloadExe1", <<>>), rest |-> <<>>]

\* a first word that is rejected when it is zero
SentinelHitZero(w) == w = U32(0)

\* the first word is the rejected marker
SentinelHit(w) == w = U32Max

\* a declared length of 0 that takes the byte after the length word as a
\* terminator
OperationArgSkipsByte(s, n) ==
    IF n = U32(0) THEN [ok |-> TRUE, arg |-> <<>>, rest |-> Drop(s, 1)]
    ELSE LET r == SliceReadExactU32(s, n)
             c == CStringFromVecWithNul(r.data)
             t == CStringIntoString(c.bytes)
         IN  IF ~r.ok \/ ~c.ok \/ ~t.ok
                \/ ~U32EqNat(n, StrLen(t.str) + 1)
             THEN [ok |-> FALSE, arg |-> <<>>, rest |-> <<>>]
             ELSE [ok |-> TRUE, arg |-> t.str, rest |-> r.rest]

\* the argument of a record whose declared length is the u32 n, read from s
OperationArg(s, n) ==
    IF n = U32(0) THEN [ok |-> TRUE, arg |-> <<>>, rest |-> s]
    ELSE LET r == SliceReadExactU32(s, n)
             c == CStringFromVecWithNul(r.data)
             t == CStringIntoString(c.bytes)
         IN  IF ~r.ok \/ ~c.ok \/ ~t.ok
                \/ ~U32EqNat(n, StrLen(t.str) + 1)
             THEN [ok |-> FALSE, arg |-> <<>>, rest |-> <<>>]
             ELSE [ok |-> TRUE, arg |-> t.str, rest |-> r.rest]

\* impl TryFrom<&mut &[u8]> for Operation
OperationTryFrom(value) ==
    LET r1 == SliceReadExact(value, 4)
        r2 == SliceReadExact(r1.rest, 4)
        oc == OpCodeTryFrom(U32FromLeBytes(r2.data))
        r3 == SliceReadExact(r2.rest, 4)
        r4 == SliceReadExact(r3.rest, 4)
        a  == OperationArg(r4.rest, U32FromLeBytes(r4.data))
    IN  IF ~r1.ok THEN OpErr
        ELSE IF SentinelHit(U32FromLeBytes(r1.data)) THEN OpErr
        ELSE IF ~r2.ok THEN OpErr
        ELSE IF ~oc.ok THEN OpErr
        ELSE IF ~r3.ok THEN OpErr
        ELSE IF ~r4.ok THEN OpErr
        ELSE IF ~a.ok THEN OpErr
        ELSE [ok |-> TRUE, op |-> Operation(oc.opcode, a.arg), rest |-> a.rest]

-----------------------------------------------------------------------------
(* Response: an ordered list of Operations *)

\* the bytes of the operations in list order, or a panic of one of them
RECURSIVE ResponseOpsBytes(_, _)
ResponseOpsBytes(ops, checks) ==
    IF ops = <<>> THEN [tag |-> "ok", bytes |-> <<>>]
    ELSE LET b == OperationIntoBytes(Head(ops), checks)
             r == ResponseOpsBytes(Tail(ops), checks)
         IN  IF b.tag = "panic" \/ r.tag = "panic"
             THEN [tag |-> "panic", bytes |-> <<>>]
             ELSE [tag |-> "ok", bytes |-> b.bytes \o r.bytes]

\* the placeholder written where the length goes
LenPlaceholder == <<9, 0, 0, 0>>

\* the first four bytes left as they were first written
ResponseLenPatchNone(response) == response

\* `response[..4].clone_from_slice(&(response.len() as u32).to_le_bytes())`
ResponseLenPatch(response) ==
    U32ToLeBytes(UsizeAsU32(Usize(Len(response)))) \o Drop(response, 4)

\* the count written as one more than the number of operations
ResponseCountWordOff(ops) == U32ToLeBytes(UsizeAsU32(Usize(Len(ops) + 1)))

\* `(value.ops.len() as u32).to_le_bytes()`
ResponseCountWord(ops) == U32ToLeBytes(UsizeAsU32(Usize(Len(ops))))

\* impl From<Response> for Vec<u8>
ResponseIntoBytes(ops, checks) ==
    LET b == ResponseOpsBytes(ops, checks)
    IN  IF b.tag = "panic" THEN [tag |-> "panic", bytes |-> <<>>]
        ELSE [tag |-> "ok",
              bytes |-> ResponseLenPatch(
                            LenPlaceholder \o ResponseCountWord(ops) \o b.bytes)]

RespErr == [ok |-> FALSE, ops |-> <<>>, rest |-> <<>>]

\* a loop that returns the operations decoded so far when a record fails
RECURSIVE ResponseLoopPartial(_, _, _)
ResponseLoopPartial(s, num_ops, done) ==
    IF U32EqNat(num_ops, Len(done)) THEN [ok |-> TRUE, ops |-> done, rest |-> s]
    ELSE LET o == OperationTryFrom(s)
         IN  IF ~o.ok THEN [ok |-> TRUE, ops |-> done, rest |-> s]
             ELSE ResponseLoopPartial(o.rest, num_ops, Append(done, o.op))

\* the loop `for _ in 0..num_ops`: done operations are decoded, num_ops is
\* a u32; the first record that fails ends the decode
RECURSIVE ResponseLoop(_, _, _)
ResponseLoop(s, num_ops, done) ==
    IF U32EqNat(num_ops, Len(done)) THEN [ok |-> TRUE, ops |-> done, rest |-> s]
    ELSE LET o == OperationTryFrom(s)
         IN  IF ~o.ok THEN RespErr
             ELSE ResponseLoop(o.rest, num_ops, Append(done, o.op))

\* a declared length below the 8 bytes of the two header words is refused too
DeclaredTooLongOrShort(declared, remaining) ==
    U32GtNat(declared, remaining + 4) \/ ~U32GtNat(declared, 7)

\* the declared length must be the length of the buffer exactly
DeclaredTooLongExact(declared, remaining) == ~U32EqNat(declared, remaining + 4)

\* the declared length compared with the remaining bytes alone
DeclaredTooLongNoAdjust(declared, remaining) == U32GtNat(declared, remaining + 8)

\* `(u32::from_le_bytes(buf) as usize) > value.len() + 4`
DeclaredTooLong(declared, remaining) == U32GtNat(declared, remaining + 4)

\* impl TryFrom<&mut &[u8]> for Response
ResponseTryFrom(value) ==
    LET r1 == SliceReadExact(value, 4)
        r2 == SliceReadExact(r1.rest, 4)
    IN  IF ~r1.ok THEN RespErr
        ELSE IF DeclaredTooLong(U32FromLeBytes(r1.data), Len(r1.rest)) THEN RespErr
        ELSE IF ~r2.ok THEN RespErr
        ELSE ResponseLoop(r2.rest, U32FromLeBytes(r2.data), <<>>)

-----------------------------------------------------------------------------
(* Text decoding of encoding_rs, as read_string uses it *)

\* UTF_8 decoding without BOM handling: each ill-formed sequence (its
\* longest well-formed prefix) becomes one U+FFFD
RECURSIVE Utf8DecodeLossyFrom(_, _)
Utf8DecodeLossyFrom(b, i) ==
    IF i > Len(b) THEN <<>>
    ELSE LET sc == Utf8Scan(b, i)
         IN  <<IF sc.whole THEN Utf8Value(b, i, sc.len) ELSE Replacement>>
             \o Utf8DecodeLossyFrom(b, i + sc.len)

Utf8DecodeLossy(b) == Utf8DecodeLossyFrom(b, 1)

IsLeadSurrogate(u) == u >= 55296 /\ u <= 56319

IsTrailSurrogate(u) == u >= 56320 /\ u <= 57343

\* the 16-bit code unit at b[i], b[i + 1]
Utf16Unit(b, i, bigEndian) ==
    IF bigEndian THEN 256 * b[i] + b[i + 1] ELSE b[i] + 256 * b[i + 1]

\* UTF-16 decoding without BOM handling: an unpaired surrogate becomes
\* U+FFFD, and so does what is left at the end of the input (an odd byte, a
\* lead surrogate, or both)
RECURSIVE Utf16DecodeLossyFrom(_, _, _)
Utf16DecodeLossyFrom(b, i, bigEndian) ==
    IF i > Len(b) THEN <<>>
    ELSE IF i = Len(b) THEN <<Replacement>>
    ELSE LET u == Utf16Unit(b, i, bigEndian)
         IN  IF IsLeadSurrogate(u)
             THEN IF i + 3 > Len(b) THEN <<Replacement>>
                  ELSE LET t == Utf16Unit(b, i + 2, bigEndian)
                       IN  IF IsTrailSurrogate(t)
                           THEN <<65536 + (u - 55296) * 1024 + (t - 56320)>>
                                \o Utf16DecodeLossyFrom(b, i + 4, bigEndian)
                           ELSE <<Replacement>>
                                \o Utf16DecodeLossyFrom(b, i + 2, bigEndian)
             ELSE <<IF IsTrailSurrogate(u) THEN Replacement ELSE u>>
                  \o Utf16DecodeLossyFrom(b, i + 2, bigEndian)

Utf16DecodeLossy(b, bigEndian) == Utf16DecodeLossyFrom(b, 1, bigEndian)

StartsWith(b, prefix) == Len(b) >= Len(prefix) /\ Take(b, Len(prefix)) = prefix

\* Encoding::for_bom: the encoding a byte order mark at the start of the
\* input names, and the length of the mark
ForBom(b) ==
    IF StartsWith(b, <<239, 187, 191>>) THEN [enc |-> "UTF-8", len |-> 3]
    ELSE IF StartsWith(b, <<255, 254>>) THEN [enc |-> "UTF-16LE", len |-> 2]
    ELSE IF StartsWith(b, <<254, 255>>) THEN [enc |-> "UTF-16BE", len |-> 2]
    ELSE [enc |-> "none", len |-> 0]

DecodeWithoutBom(enc, b) ==
    IF enc = "UTF-8" THEN Utf8DecodeLossy(b)
    ELSE Utf16DecodeLossy(b, enc = "UTF-16BE")

\* Encoding::decode: a byte order mark at the start of the input, if there
\* is one, is removed and decides the encoding; without one the encoding
\* the call was made on is used
EncodingDecode(enc, b) ==
    LET bom == ForBom(b)
    IN  IF bom.enc = "none" THEN DecodeWithoutBom(enc, b)
        ELSE DecodeWithoutBom(bom.enc, Drop(b, bom.len))

-----------------------------------------------------------------------------
(* BodyReader: a cursor over the borrowed buffer *)

\* BodyReader::new
BodyReaderNew(buffer) == [buf |-> buffer, pos |-> 0]

\* what a read returns: a value and the reader after it, or nothing and the
\* reader as the failed read left it
Some(v, r) == [ok |-> TRUE, val |-> v, rd |-> r]

None(r) == [ok |-> FALSE, rd |-> r]

\* Cursor::read_exact when fewer bytes remain than asked for: the standard
\* library leaves the position of the cursor unspecified; the builds either
\* leave it where it was or move it to the end of the buffer
CursorAfterEof(r) == IF eofOnErr THEN [r EXCEPT !.pos = Len(r.buf)] ELSE r

\* a fixed-size read that fails when exactly n bytes remain
read_bytes_exact_short(r, n) ==
    IF n >= Len(r.buf) - r.pos THEN None(CursorAfterEof(r))
    ELSE Some(SubSeq(r.buf, r.pos + 1, r.pos + n), [r EXCEPT !.pos = r.pos + n])

\* read_bytes_exact::<N>, and Cursor::read_exact for a Vec of n bytes
read_bytes_exact(r, n) ==
    IF n > Len(r.buf) - r.pos THEN None(CursorAfterEof(r))
    ELSE Some(SubSeq(r.buf, r.pos + 1, r.pos + n), [r EXCEPT !.pos = r.pos + n])

\* u16::from_le_bytes over what read_bytes_exact::<2> gave
U16Of(b) == IF ~b.ok THEN b ELSE Some(U16FromLeBytes(b.val), b.rd)

read_u16(r) == U16Of(read_bytes_exact(r, 2))

\* u32::from_le_bytes over what read_bytes_exact::<4> gave
U32Of(b) == IF ~b.ok THEN b ELSE Some(U32FromLeBytes(b.val), b.rd)

read_u32(r) == U32Of(read_bytes_exact(r, 4))

\* `read_u16()? != 0`
BoolOf(w) == IF ~w.ok THEN w ELSE Some(w.val # 0, w.rd)

read_bool(r) == BoolOf(read_u16(r))

\* a read of as many bytes as the u32 len says (`len as usize`) into a
\* vector of that size
ReadCounted(r, len) ==
    IF U32GtNat(len, Len(r.buf) - r.pos) THEN None(CursorAfterEof(r))
    ELSE read_bytes_exact(r, len.lo + Pow16 * len.hi)

\* a decode that fails on an odd number of bytes under UTF-16LE
StringDecodedStrict(str_type, str_bytes) ==
    IF ~str_bytes.ok THEN str_bytes
    ELSE IF str_type # 0 /\ Len(str_bytes.val) % 2 = 1 THEN None(str_bytes.rd)
    ELSE Some(EncodingDecode(IF str_type = 0 THEN "UTF-8" ELSE "UTF-16LE",
                             str_bytes.val),
              str_bytes.rd)

\* read_string once the bytes are read: the encoding is chosen by the kind
StringDecoded(str_type, str_bytes) ==
    IF ~str_bytes.ok THEN str_bytes
    ELSE Some(EncodingDecode(IF str_type = 0 THEN "UTF-8" ELSE "UTF-16LE",
                             str_bytes.val),
              str_bytes.rd)

\* read_string once the length is read
StringBytes(str_type, str_len) ==
    IF ~str_len.ok THEN str_len
    ELSE StringDecoded(str_type, ReadCounted(str_len.rd, str_len.val))

\* read_string once the kind is read
StringLen(str_type) ==
    IF ~str_type.ok THEN str_type
    ELSE StringBytes(str_type.val, read_u32(str_type.rd))

read_string(r) == StringLen(read_u16(r))

\* read_vec once the length is read
VecBytes(len) == IF ~len.ok THEN len ELSE ReadCounted(len.rd, len.val)

read_vec(r) == VecBytes(read_u32(r))

-----------------------------------------------------------------------------
(* Packets *)

\* PacketId: the discriminants, as u32 values (hi: upper 16 bits)
PacketIdBeacon == [lo |-> 18, hi |-> 40]

PacketIdInformation == [lo |-> 18, hi |-> 39]

\* the variant without a discriminant takes the one after Information
PacketIdUnknown == [lo |-> 19, hi |-> 39]

\* the derived TryFromPrimitive of PacketId
PacketIdTryFrom(id) ==
    IF id = PacketIdBeacon THEN [ok |-> TRUE, id |-> "Beacon"]
    ELSE IF id = PacketIdInformation THEN [ok |-> TRUE, id |-> "Information"]
    ELSE IF id = PacketIdUnknown THEN [ok |-> TRUE, id |-> "Unknown"]
    ELSE [ok |-> FALSE, id |-> "Unknown"]

\* the derived TryFromPrimitive of ProductType
ProductTypeTryFrom(n) ==
    IF n = 1 THEN [ok |-> TRUE, pt |-> "VER_NT_WORKSTATION"]
    ELSE IF n = 2 THEN [ok |-> TRUE, pt |-> "VER_NT_DOMAIN_CONTROLLER"]
    ELSE IF n = 3 THEN [ok |-> TRUE, pt |-> "VER_NT_SERVER"]
    ELSE [ok |-> FALSE, pt |-> "none"]

\* "ckav.ru"
DomainFragment == <<99, 107, 97, 118, 46, 114, 117>>

\* what reading one field gives: the value ("some"), a failed read or a
\* failed check ("none"), or a failed assertion ("panic")
FieldNone == [st |-> "none"]

FieldPanic == [st |-> "panic"]

FieldOf(x) ==
    IF x.ok THEN [st |-> "some", val |-> x.val, rd |-> x.rd] ELSE FieldNone

\* the check of a fixed field once it is read
ReservedOf(w) ==
    IF ~w.ok THEN FieldNone
    ELSE IF w.val # 0 THEN FieldPanic
    ELSE [st |-> "some", val |-> w.val, rd |-> w.rd]

\* `assert_eq!(reader.read_u16()?, 0)`
ReadReserved(r) == ReservedOf(read_u16(r))

\* the product type once its u16 is converted
ProductTypeNamed(t, rd) ==
    IF ~t.ok THEN FieldNone ELSE [st |-> "some", val |-> t.pt, rd |-> rd]

\* the product type once its u16 is read
ProductTypeOf(w) ==
    IF ~w.ok THEN FieldNone
    ELSE ProductTypeNamed(ProductTypeTryFrom(w.val), w.rd)

\* the read of the product type: a u16 that must name a variant
ReadProductType(r) == ProductTypeOf(read_u16(r))

ReadField(kind, r) ==
    CASE kind = "string" -> FieldOf(read_string(r))
      [] kind = "u32" -> FieldOf(read_u32(r))
      [] kind = "u16" -> FieldOf(read_u16(r))
      [] kind = "bool" -> FieldOf(read_bool(r))
      [] kind = "vec" -> FieldOf(read_vec(r))
      [] kind = "product" -> ReadProductType(r)
      [] kind = "reserved" -> ReadReserved(r)

\* the fields read one after the other; the first that is not read ends
\* the sequence with its outcome
RECURSIVE ReadFields(_, _, _)
ReadFieldsAfter(kinds, f, got) ==
    IF f.st # "some" THEN [st |-> f.st]
    ELSE ReadFields(Tail(kinds), f.rd, Append(got, f.val))

ReadFields(kinds, r, got) ==
    IF kinds = <<>> THEN [st |-> "some", val |-> got, rd |-> r]
    ELSE ReadFieldsAfter(kinds, ReadField(Head(kinds), r), got)

\* the fields of PacketHeader in the order from_reader reads them
HeaderFields == <<"string", "string", "string", "u32", "u32", "bool", "bool",
                  "bool", "u16", "u16", "product", "u16">>

\* the PacketHeader built from its fields
HeaderOf(f) ==
    IF f.st # "some" THEN [st |-> f.st]
    ELSE [st |-> "some", rd |-> f.rd,
          val |-> [username |-> f.val[1], computer_name |-> f.val[2],
                   domain_name |-> f.val[3], monitor_width |-> f.val[4],
                   monitor_height |-> f.val[5],
                   is_domain_admin |-> f.val[6],
                   is_local_admin |-> f.val[7], is_amd_arch |-> f.val[8],
                   win_major_version |-> f.val[9],
                   win_minor_version |-> f.val[10],
                   win_product_type |-> f.val[11],
                   unknown_data |-> f.val[12]]]

\* PacketHeader::from_reader
PacketHeaderFromReader(r) == HeaderOf(ReadFields(HeaderFields, r, <<>>))

\* a BeaconPacket built with an empty hash when the hash is not read
BeaconOfPartial(h, g) ==
    IF g.st # "some"
    THEN [st |-> "some", rd |-> h.rd,
          val |-> [variant |-> "Beacon", header |-> h.val,
                   truncated_guid_hash |-> <<>>]]
    ELSE [st |-> "some", rd |-> g.rd,
          val |-> [variant |-> "Beacon", header |-> h.val,
                   truncated_guid_hash |-> g.val]]

\* the BeaconPacket built from its header h and its hash g
BeaconOf(h, g) ==
    IF g.st # "some" THEN [st |-> g.st]
    ELSE [st |-> "some", rd |-> g.rd,
          val |-> [variant |-> "Beacon", header |-> h.val,
                   truncated_guid_hash |-> g.val]]

\* BeaconPacket::from_reader once the header is read
BeaconAfterHeader(h) ==
    IF h.st # "some" THEN [st |-> h.st]
    ELSE BeaconOf(h, ReadField("string", h.rd))

\* BeaconPacket::from_reader
BeaconPacketFromReader(r) == BeaconAfterHeader(PacketHeaderFromReader(r))

\* the fields InformationPacket::from_reader reads after the header
InformationFields == <<"u16", "u16", "reserved", "reserved", "reserved",
                       "u32", "string", "vec", "vec">>

\* the InformationPacket built from its header h and its other fields f
InformationOf(h, f) ==
    IF f.st # "some" THEN [st |-> f.st]
    ELSE [st |-> "some", rd |-> f.rd,
          val |-> [variant |-> "Information", header |-> h.val,
                   unknown_short_1 |-> f.val[1],
                   unknown_short_2 |-> f.val[2],
                   truncated_guid_hash |-> f.val[7],
                   buf_1 |-> f.val[8], buf_2 |-> f.val[9]]]

\* InformationPacket::from_reader once the header is read
InformationAfterHeader(h) ==
    IF h.st # "some" THEN [st |-> h.st]
    ELSE InformationOf(h, ReadFields(InformationFields, h.rd, <<>>))

\* InformationPacket::from_reader
InformationPacketFromReader(r) ==
    InformationAfterHeader(PacketHeaderFromReader(r))

NoPacket == [variant |-> "none"]

\* Err(()); `at` records the statement of Packet::try_from that returned
PktErr == [tag |-> "err", packet |-> NoPacket, at |-> "none"]

PktErrAt(stage) == [PktErr EXCEPT !.at = stage]

PktPanic == [tag |-> "panic", packet |-> NoPacket, at |-> "tail"]

\* the outcome of a tail parser as the outcome of the decode
PacketResult(t) ==
    IF t.st = "some" THEN [tag |-> "ok", packet |-> t.val, at |-> "tail"]
    ELSE IF t.st = "panic" THEN PktPanic
    ELSE PktErrAt("tail")

\* the match with the Unknown variant handed to the Beacon parser
PacketDispatchUnknownAsBeacon(packet_type, reader) ==
    IF ~packet_type.ok THEN PktErrAt("packet_id")
    ELSE IF packet_type.id = "Information"
         THEN PacketResult(InformationPacketFromReader(reader))
    ELSE PacketResult(BeaconPacketFromReader(reader))

\* Packet::try_from once the identifier is mapped: the tail parser of the
\* packet type runs on the same reader
PacketDispatch(packet_type, reader) ==
    IF ~packet_type.ok THEN PktErrAt("packet_id")
    ELSE IF packet_type.id = "Beacon"
         THEN PacketResult(BeaconPacketFromReader(reader))
    ELSE IF packet_type.id = "Information"
         THEN PacketResult(InformationPacketFromReader(reader))
    ELSE PktErrAt("match")

\* the domain fragment compared after the tail parser has run
PacketAfterDomainLate(id, domain) ==
    IF ~domain.ok THEN PktErrAt("domain")
    ELSE IF PacketDispatch(PacketIdTryFrom(id), domain.rd).tag = "panic"
         THEN PktPanic
    ELSE IF domain.val # DomainFragment THEN PktErrAt("domain")
    ELSE PacketDispatch(PacketIdTryFrom(id), domain.rd)

\* Packet::try_from once the domain fragment is read
PacketAfterDomain(id, domain) ==
    IF ~domain.ok THEN PktErrAt("domain")
    ELSE IF domain.val # DomainFragment THEN PktErrAt("domain")
    ELSE PacketDispatch(PacketIdTryFrom(id), domain.rd)

\* Packet::try_from once the identifier is read
PacketAfterId(id) ==
    IF ~id.ok THEN PktErrAt("id")
    ELSE PacketAfterDomain(id.val, read_string(id.rd))

\* impl TryFrom<&[u8]> for Packet
PacketTryFrom(value) == PacketAfterId(read_u32(BodyReaderNew(value)))

-----------------------------------------------------------------------------
(* The inputs the calls are made with *)

\* characters of the arguments handed to the encoder: NUL, 'a', U+00E9
\* (two bytes in UTF-8), U+20AC (three bytes)
ArgChars == {0, 97, 233, 8364}

OperationInputs ==
    {Operation(o, a) : o \in OpCode, a \in SeqsUpTo(ArgChars, MaxArgChars)}

\* arg.len() values around the 16-, 32- and 48-bit limb boundaries
LenInputs ==
    {<<a, b, c, 0>> : a \in {0, 1, 2, U16Max - 1, U16Max},
                      b \in {0, 1, U16Max}, c \in {0, 1}}

\* first reserved words
Word1Inputs == {U32(0), U32(1), [lo |-> U16Max, hi |-> 0],
                [lo |-> 0, hi |-> U16Max],
                [lo |-> U16Max - 1, hi |-> U16Max], U32Max}

\* second reserved words
Word2Inputs == {U32(0), U32Max}

\* opcode words: the small values, and values that agree with a valid opcode
\* in some bytes only
OpWordInputs ==
    {U32(n) : n \in 0..MaxOpWord} \cup
    {U32(256), U32(266), U32(2560), [lo |-> 10, hi |-> 1],
     [lo |-> 0, hi |-> 2560], [lo |-> U16Max - 1, hi |-> U16Max], U32Max}

\* opcode words of the records whose other fields vary
OpWordFew == {U32(8), U32(3), U32(17)}

\* declared argument lengths
LenWordInputs ==
    {U32(n) : n \in 0..(MaxBodyLen + 1)} \cup {[lo |-> 1, hi |-> 1], U32Max}

\* bytes of the argument field: NUL, 'a', and a UTF-8 lead byte
BodyBytes == {0, 97, 195}

\* bytes that follow a record
ExtraBytes == {0, 97}

RawRecord(w1, opw, w2, lenw, body) ==
    U32ToLeBytes(w1) \o U32ToLeBytes(opw) \o U32ToLeBytes(w2)
    \o U32ToLeBytes(lenw) \o body

\* a well-formed record: DeleteFile "ab"
SampleRecord == RawRecord(U32(0), U32(8), U32(0), U32(3), <<97, 98, 0>>)

\* argument fields of the records whose reserved words vary
SampleBodies == {<<>>, <<0>>, <<97, 0>>, <<97, 98, 0>>, <<195, 0>>, <<97, 98>>}

\* records with every combination of reserved words, with every argument
\* field, with every opcode word, and the prefixes of a well-formed record
OperationBuffers ==
    {RawRecord(w1, opw, w2, lenw, body) \o extra :
        w1 \in Word1Inputs, opw \in OpWordFew, w2 \in Word2Inputs,
        lenw \in LenWordInputs, body \in SampleBodies,
        extra \in {<<>>, <<0>>}}
    \cup
    {RawRecord(w1, U32(8), U32(0), lenw, body) \o extra :
        w1 \in {U32(0), U32Max},
        lenw \in LenWordInputs, body \in SeqsUpTo(BodyBytes, MaxBodyLen),
        extra \in SeqsUpTo(ExtraBytes, MaxExtra)}
    \cup
    {RawRecord(U32(0), opw, U32(0), U32(Len(body)), body) :
        opw \in OpWordInputs,
        body \in {<<0>>, <<97, 0>>, <<195, 169, 0>>}}
    \cup
    {Take(SampleRecord, k) : k \in 0..Len(SampleRecord)}

\* operations of the Responses handed to the encoder
ResponseOperations ==
    {Operation(o, a) : o \in {"DeleteFile", "MoveAndExit"},
                       a \in SeqsUpTo({0, 97, 233}, MaxRespArgChars)}

ResponseInputs == SeqsUpTo(ResponseOperations, MaxOps)

\* records of the Response buffers handed to the decoder: DeleteFile "ab",
\* DownloadExe1 "", a record of declared length 0, an invalid opcode, the
\* rejected first word, and a declared length one too long
ResponseRecords ==
    {SampleRecord,
     RawRecord(U32(0), U32(0), U32(0), U32(1), <<0>>),
     RawRecord(U32(0), U32(10), U32(0), U32(0), <<>>),
     RawRecord(U32(0), U32(3), U32(0), U32(1), <<0>>),
     RawRecord(U32Max, U32(8), U32(0), U32(1), <<0>>),
     RawRecord(U32(0), U32(8), U32(0), U32(4), <<97, 98, 0>>)}

\* operation counts
CountInputs == {U32(n) : n \in 0..(MaxOps + 1)} \cup {U32Max}

\* declared total lengths for a buffer of total bytes of which the last
\* extra are appended ones
DeclaredInputs(total, extra) ==
    {U32(0), U32(total), U32(total - extra), U32(total - 1), U32(total + 1),
     U32(total + 4), U32(total + 5), [lo |-> 0, hi |-> 1], U32Max}

\* buffers with every declared length around the right one, buffers with
\* every count, and the prefixes of the header of an empty Response
ResponseBuffers ==
    UNION {
        {U32ToLeBytes(d) \o U32ToLeBytes(U32(Len(recs))) \o Flatten(recs) \o extra :
            d \in DeclaredInputs(8 + Len(Flatten(recs)) + Len(extra), Len(extra))}
        \cup
        {U32ToLeBytes(U32(8 + Len(Flatten(recs)) + Len(extra)))
         \o U32ToLeBytes(n) \o Flatten(recs) \o extra : n \in CountInputs} :
        recs \in SeqsUpTo(ResponseRecords, MaxOps),
        extra \in SeqsUpTo(ExtraBytes, MaxExtra)}
    \cup
    {Take(U32ToLeBytes(U32(8)) \o U32ToLeBytes(U32(0)), k) : k \in 0..7}

\* a u16 on the wire
U16ToLeBytes(n) == <<n % 256, n \div 256>>

\* a string field on the wire: kind, byte length, bytes
RawString(kind, body) ==
    U16ToLeBytes(kind) \o U32ToLeBytes(U32(Len(body))) \o body

\* a blob field on the wire: byte length, bytes
RawBlob(body) == U32ToLeBytes(U32(Len(body))) \o body

\* the header fields on the wire: user "u" (UTF-16LE), computer "PC"
\* (UTF-8), domain "d" (UTF-16LE), a 1462 x 812 monitor, the three flags,
\* Windows 6.1, the product type pt and the last 16-bit value
RawHeader(pt) ==
    RawString(1, <<117, 0>>) \o RawString(0, <<80, 67>>)
    \o RawString(1, <<100, 0>>)
    \o U32ToLeBytes(U32(1462)) \o U32ToLeBytes(U32(812))
    \o U16ToLeBytes(1) \o U16ToLeBytes(0) \o U16ToLeBytes(1)
    \o U16ToLeBytes(6) \o U16ToLeBytes(1) \o U16ToLeBytes(pt)
    \o U16ToLeBytes(107)

\* the fields of a Beacon after the header: the hash "9F"
RawBeaconTail == RawString(1, <<57, 0, 70, 0>>)

\* the fields of an Information packet after the header, with the values
\* z1, z2, z3 in the three fixed fields and the two blobs b1 and b2
RawInformationTail(z1, z2, z3, b1, b2) ==
    U16ToLeBytes(0) \o U16ToLeBytes(1)
    \o U16ToLeBytes(z1) \o U16ToLeBytes(z2) \o U16ToLeBytes(z3)
    \o U32ToLeBytes(U32(0)) \o RawString(1, <<57, 0, 70, 0>>)
    \o RawBlob(b1) \o RawBlob(b2)

RawPacket(id, domain, pt, tail) ==
    U32ToLeBytes(id) \o domain \o RawHeader(pt) \o tail

\* packet identifiers: the two of the protocol, the value of the Unknown
\* variant, and values that share bytes with them
PacketIdInputs == {PacketIdBeacon, PacketIdInformation, PacketIdUnknown,
                   U32(0), [lo |-> 18, hi |-> 0], [lo |-> 18, hi |-> 41],
                   U32Max}

\* domain fragment fields: "ckav.ru" as UTF-8 and as UTF-16LE, a wrong
\* letter, a shorter and a longer text
DomainInputs ==
    {RawString(0, DomainFragment),
     RawString(1, <<99, 0, 107, 0, 97, 0, 118, 0, 46, 0, 114, 0, 117, 0>>),
     RawString(0, <<99, 107, 97, 118, 46, 114, 85>>),
     RawString(0, <<99, 107, 97, 118, 46, 114>>),
     RawString(0, DomainFragment \o <<0>>)}

ProductTypeInputs == {0, 1, 2, 3, 4}

\* values of the three fixed 16-bit fields
ReservedInputs == {0, 1, 256, U16Max}

\* bytes of the blobs
BlobBytes == {0, 7}

TailInputs ==
    {RawBeaconTail} \cup
    {RawInformationTail(z1, z2, z3, b1, <<>>) :
        z1 \in ReservedInputs, z2 \in ReservedInputs, z3 \in ReservedInputs,
        b1 \in SeqsUpTo(BlobBytes, MaxBlobLen)}

\* a well-formed packet of each kind
SampleBeacon ==
    RawPacket(PacketIdBeacon, RawString(0, DomainFragment), 1, RawBeaconTail)

SampleInformation ==
    RawPacket(PacketIdInformation, RawString(0, DomainFragment), 1,
              RawInformationTail(0, 0, 0, <<105, 80>>, <<>>))

PacketBuffers ==
    {RawPacket(id, RawString(0, DomainFragment), pt, tail) :
        id \in PacketIdInputs, pt \in ProductTypeInputs, tail \in TailInputs}
    \cup
    {RawPacket(id, dom, 1, tail) :
        id \in PacketIdInputs, dom \in DomainInputs,
        tail \in {RawBeaconTail, RawInformationTail(0, 0, 0, <<>>, <<>>),
                  RawInformationTail(0, 1, 0, <<>>, <<>>)}}
    \cup
    {Take(SampleBeacon, k) : k \in 0..Len(SampleBeacon)}
    \cup
    {Take(SampleInformation, k) : k \in 0..Len(SampleInformation)}
    \cup
    {SampleBeacon \o <<0>>, SampleInformation \o <<0>>}

\* kinds of the string fields read: UTF-8, and three that are not 0
KindInputs == {0, 1, 256, U16Max}

\* byte order marks in front of the text: none, UTF-8, UTF-16LE, UTF-16BE
BomInputs == {<<>>, <<239, 187, 191>>, <<255, 254>>, <<254, 255>>}

\* bytes of the text: NUL, 'A', and 0xD8 (no UTF-8 byte, and the upper byte
\* of a UTF-16 lead surrogate)
TextBytes == {0, 65, 216}

\* a string field with a declared length that need not be the length of
\* what follows
RawStringDeclared(kind, len, body) ==
    U16ToLeBytes(kind) \o U32ToLeBytes(len) \o body

\* string fields of the two kinds with every text after every mark; one text
\* under every kind; declared lengths around the bytes that follow; and the
\* prefixes of one field
ReaderBuffers ==
    {RawString(kind, bom \o text) :
        kind \in {0, 1}, bom \in BomInputs,
        text \in SeqsUpTo(TextBytes, MaxTextBytes)}
    \cup
    {RawString(kind, body) \o <<7>> :
        kind \in KindInputs,
        body \in {<<65, 0>>, <<255, 254, 65, 0>>, <<239, 187, 191, 65>>}}
    \cup
    {RawStringDeclared(kind, len, <<65, 0>>) :
        kind \in {0, 1},
        len \in {U32(0), U32(1), U32(2), U32(3), [lo |-> 2, hi |-> 1],
                 U32Max}}
    \cup
    {Take(RawString(1, <<65, 0>>), k) : k \in 0..8}

-----------------------------------------------------------------------------
(* The state machine: each step is one call of the codec *)

NoOperation == Operation("DownloadExe1", <<>>)

NoBytesOut == [tag |-> "none", bytes |-> <<>>]

NoLen == <<0, 0, 0, 0>>

NoReader == BodyReaderNew(<<>>)

NoRead == [op |-> "none", n |-> 0, from |-> 0, ok |-> FALSE, val |-> <<>>]

\* a call leaves its arguments and its result in the state
Call(name, c, op, ops, len, bin, bout, oout, rout, pout) ==
    /\ pc' = name
    /\ build' = c
    /\ opIn' = op
    /\ opsIn' = ops
    /\ lenIn' = len
    /\ bytesIn' = bin
    /\ bytesOut' = bout
    /\ opOut' = oout
    /\ respOut' = rout
    /\ pktOut' = pout
    /\ bodyReader' = NoReader
    /\ readOut' = NoRead
    /\ UNCHANGED eofOnErr

Init ==
    /\ eofOnErr \in BOOLEAN
    /\ bodyReader = NoReader
    /\ readOut = NoRead
    /\ pc = "init"
    /\ build = FALSE
    /\ opIn = NoOperation
    /\ opsIn = <<>>
    /\ lenIn = NoLen
    /\ bytesIn = <<>>
    /\ bytesOut = NoBytesOut
    /\ opOut = OpErr
    /\ respOut = RespErr
    /\ pktOut = PktErr

\* Vec::<u8>::from(op)
EncodeOperation ==
    /\ pc = "init"
    /\ \E op \in OperationInputs, c \in BOOLEAN :
        Call("encode_operation", c, op, <<>>, Usize(StrLen(op.arg)), <<>>,
             OperationIntoBytes(op, c), OpErr, RespErr, PktErr)

\* the four header words of Vec::<u8>::from(op), for an argument of any
\* length a usize can hold
WriteOperationHeader ==
    /\ pc = "init"
    /\ \E o \in OpCode, len \in LenInputs, c \in BOOLEAN :
        LET h == OperationHeader(o, len, c)
        IN  Call("operation_header", c, Operation(o, <<>>), <<>>, len, <<>>,
                 [tag |-> IF h.panic THEN "panic" ELSE "ok",
                  bytes |-> IF h.panic THEN <<>> ELSE h.bytes],
                 OpErr, RespErr, PktErr)

\* Operation::try_from(&mut buf)
DecodeOperation ==
    /\ pc = "init"
    /\ \E buf \in OperationBuffers :
        Call("decode_operation", FALSE, NoOperation, <<>>, NoLen, buf,
             NoBytesOut, OperationTryFrom(buf), RespErr, PktErr)

\* the call is over: the next one starts afresh (the codec keeps no state)
Return ==
    /\ pc # "init"
    /\ pc' = "init"
    /\ build' = FALSE
    /\ opIn' = NoOperation
    /\ opsIn' = <<>>
    /\ lenIn' = NoLen
    /\ bytesIn' = <<>>
    /\ bytesOut' = NoBytesOut
    /\ opOut' = OpErr
    /\ respOut' = RespErr
    /\ pktOut' = PktErr
    /\ bodyReader' = NoReader
    /\ readOut' = NoRead
    /\ UNCHANGED eofOnErr

\* Vec::<u8>::from(response)
EncodeResponse ==
    /\ pc = "init"
    /\ \E ops \in ResponseInputs, c \in BOOLEAN :
        Call("encode_response", c, NoOperation, ops, NoLen, <<>>,
             ResponseIntoBytes(ops, c), OpErr, RespErr, PktErr)

\* Response::try_from(&mut buf)
DecodeResponse ==
    /\ pc = "init"
    /\ \E buf \in ResponseBuffers :
        Call("decode_response", FALSE, NoOperation, <<>>, NoLen, buf,
             NoBytesOut, OpErr, ResponseTryFrom(buf), PktErr)

\* Packet::try_from(buf)
DecodePacket ==
    /\ pc = "init"
    /\ \E buf \in PacketBuffers :
        Call("decode_packet", FALSE, NoOperation, <<>>, NoLen, buf,
             NoBytesOut, OpErr, RespErr, PacketTryFrom(buf))

\* BodyReader::new(buf)
NewReader ==
    /\ pc = "init"
    /\ \E buf \in ReaderBuffers :
        /\ pc' = "reader"
        /\ bodyReader' = BodyReaderNew(buf)
        /\ readOut' = NoRead
    /\ UNCHANGED <<build, opIn, opsIn, lenIn, bytesIn, bytesOut, opOut,
                   respOut, pktOut, eofOnErr>>

\* a read on the reader: the reader is left as the read left it
Read(op, n, res) ==
    /\ bodyReader' = res.rd
    /\ readOut' = [op |-> op, n |-> n, from |-> bodyReader.pos, ok |-> res.ok,
                   val |-> IF res.ok THEN res.val ELSE <<>>]
    /\ UNCHANGED <<pc, build, opIn, opsIn, lenIn, bytesIn, bytesOut, opOut,
                   respOut, pktOut, eofOnErr>>

\* reader.read_bytes_exact::<N>()
ReadBytesExact ==
    /\ pc = "reader"
    /\ \E n \in 0..MaxReadLen :
        Read("read_bytes_exact", n, read_bytes_exact(bodyReader, n))

\* reader.read_u16()
ReadU16 == pc = "reader" /\ Read("read_u16", 2, read_u16(bodyReader))

\* reader.read_u32()
ReadU32 == pc = "reader" /\ Read("read_u32", 4, read_u32(bodyReader))

\* reader.read_bool()
ReadBool == pc = "reader" /\ Read("read_bool", 2, read_bool(bodyReader))

\* reader.read_string()
ReadString == pc = "reader" /\ Read("read_string", 0, read_string(bodyReader))

\* reader.read_vec()
ReadVec == pc = "reader" /\ Read("read_vec", 0, read_vec(bodyReader))

Next ==
    \/ NewReader
    \/ ReadBytesExact
    \/ ReadU16
    \/ ReadU32
    \/ ReadBool
    \/ ReadString
    \/ ReadVec
    \/ EncodeOperation
    \/ WriteOperationHeader
    \/ DecodeOperation
    \/ EncodeResponse
    \/ DecodeResponse
    \/ DecodePacket
    \/ Return

Spec == Init /\ [][Next]_vars

-----------------------------------------------------------------------------
(* Properties of the Operation codec *)

HasNul(str) == \E i \in 1..Len(str) : str[i] = 0

\* C1: decoding the encoding of an Operation whose argument holds no zero
\* byte succeeds and gives back the same opcode and the same argument.
C1_OperationRoundTrip ==
    (pc = "encode_operation" /\ ~HasNul(opIn.arg)) =>
        /\ bytesOut.tag = "ok"
        /\ OperationTryFrom(bytesOut.bytes).ok
        /\ OperationTryFrom(bytesOut.bytes).op = opIn

C1_Witness ==
    /\ pc = "encode_operation"
    /\ opIn = Operation("DeleteFile", <<97, 8364>>)
    /\ bytesOut.tag = "ok"
    /\ OperationTryFrom(bytesOut.bytes).op = opIn

\* the fields of the record at the head of a buffer
RecWord1(buf) == U32FromLeBytes(SubSeq(buf, 1, 4))

RecOpWord(buf) == U32FromLeBytes(SubSeq(buf, 5, 8))

RecLenWord(buf) == U32FromLeBytes(SubSeq(buf, 13, 16))

\* the buffer with one of its first four words replaced
WithWord1(buf, w) == U32ToLeBytes(w) \o Drop(buf, 4)

WithOpWord(buf, w) == Take(buf, 4) \o U32ToLeBytes(w) \o Drop(buf, 8)

WithLenWord(buf, w) == Take(buf, 12) \o U32ToLeBytes(w) \o Drop(buf, 16)

\* the wire values the claim lists as accepted
AcceptedOpWords == {U32(n) : n \in {0, 1, 2, 8, 10, 14, 15, 16, 17}}

\* C6: the mapping from a 32-bit value to OpCode succeeds for exactly
\* 0, 1, 2, 8, 10, 14, 15, 16, 17; the variant it gives converts back to the
\* same number; and a record that decodes with a valid opcode word in
\* place of its own decodes if and only if its own opcode word is one of
\* those values.
C6_OpCodeMapping ==
    (pc = "decode_operation" /\ Len(bytesIn) >= 8) =>
        LET v == RecOpWord(bytesIn)
            r == OpCodeTryFrom(v)
        IN  /\ r.ok <=> v \in AcceptedOpWords
            /\ r.ok => OpCodeAsU32(r.opcode) = v
            /\ OperationTryFrom(WithOpWord(bytesIn, U32(0))).ok =>
                   (opOut.ok <=> v \in AcceptedOpWords)
            /\ opOut.ok => OpCodeAsU32(opOut.op.opcode) = v

C6_Witness ==
    /\ pc = "decode_operation"
    /\ Len(bytesIn) >= 8
    /\ RecOpWord(bytesIn) = U32(17)
    /\ opOut.ok
    /\ opOut.op.opcode = "MoveAndExit"

\* C7: a record whose first word is 0xFFFFFFFF is rejected whatever follows;
\* any other first word is ignored: the record decodes as it does with a
\* first word of zero.
C7_SentinelRejected ==
    (pc = "decode_operation" /\ Len(bytesIn) >= 4) =>
        IF RecWord1(bytesIn) = U32Max
        THEN ~opOut.ok
        ELSE opOut = OperationTryFrom(WithWord1(bytesIn, U32(0)))

C7_Witness ==
    /\ pc = "decode_operation"
    /\ Len(bytesIn) >= 4
    /\ RecWord1(bytesIn) = U32Max
    /\ OperationTryFrom(WithWord1(bytesIn, U32(0))).ok
    /\ ~opOut.ok

\* the argument field of a record: the bytes after its 16-byte header
RecTail(buf) == Drop(buf, 16)

\* the record carries an argument and its terminator
HasTerminator(buf) ==
    Len(buf) >= 16 /\ \E i \in 1..Len(RecTail(buf)) : RecTail(buf)[i] = 0

\* the number of argument bytes before the terminator
RecArgLen(buf) ==
    LET t == RecTail(buf)
    IN  (CHOOSE i \in 1..Len(t) : t[i] = 0 /\ \A j \in 1..(i - 1) : t[j] # 0) - 1

\* C8 as stated: a declared length one more or one less than the argument
\* byte count plus one is rejected, with or without bytes after the record.
C8_LengthOffByOneRejected ==
    (pc = "decode_operation" /\ HasTerminator(bytesIn)) =>
        LET L == RecArgLen(bytesIn)
        IN  (RecLenWord(bytesIn) = U32(L + 2) \/ RecLenWord(bytesIn) = U32(L))
                => ~opOut.ok

\* C8 amended: a declared length one more than the argument byte count plus
\* one is rejected, and so is one that is one less when the argument is not
\* empty, with or without bytes after the record.  (For the empty argument,
\* one less is a declared length of 0, which is accepted.)
C8_LengthOffByOneNonEmpty ==
    (pc = "decode_operation" /\ HasTerminator(bytesIn)) =>
        LET L == RecArgLen(bytesIn)
        IN  (\/ RecLenWord(bytesIn) = U32(L + 2)
             \/ RecLenWord(bytesIn) = U32(L) /\ L >= 1)
                => ~opOut.ok

\* one more than the right length, and the byte after the record is zero
C8_Witness ==
    /\ pc = "decode_operation"
    /\ Len(bytesIn) >= 16
    /\ RecTail(bytesIn) = <<97, 0, 0>>
    /\ RecLenWord(bytesIn) = U32(3)
    /\ OperationTryFrom(WithLenWord(bytesIn, U32(2))).ok
    /\ ~opOut.ok

\* x + 1 on a usize, limb by limb (the lengths of the model stay below 2^64 - 1)
RECURSIVE LimbsAddOne(_)
LimbsAddOne(x) ==
    IF x = <<>> THEN <<>>
    ELSE IF Head(x) = U16Max THEN <<0>> \o LimbsAddOne(Tail(x))
    ELSE <<Head(x) + 1>> \o Tail(x)

\* a u32 widened to a usize
U32AsUsize(w) == <<w.lo, w.hi, 0, 0>>

\* C9 as stated: the encoding of an Operation with an argument of L bytes is
\* 17 + L bytes: four zero bytes, the opcode number, four zero bytes, L + 1
\* as a little-endian u32 without wrap-around for any L, the argument bytes
\* and one zero byte.
C9_EncodeLayout ==
    /\ pc = "encode_operation" =>
        LET arg == StrAsBytes(opIn.arg)
            L == Len(arg)
            b == bytesOut.bytes
        IN  /\ bytesOut.tag = "ok"
            /\ Len(b) = 17 + L
            /\ SubSeq(b, 1, 4) = <<0, 0, 0, 0>>
            /\ SubSeq(b, 5, 8) = <<OpCodeDiscriminant(opIn.opcode), 0, 0, 0>>
            /\ SubSeq(b, 9, 12) = <<0, 0, 0, 0>>
            /\ SubSeq(b, 13, 16) = <<L + 1, 0, 0, 0>>
            /\ SubSeq(b, 17, 16 + L) = arg
            /\ b[17 + L] = 0
            /\ L = 0 => SubSeq(b, 13, 17) = <<1, 0, 0, 0, 0>>
    /\ pc = "operation_header" =>
        /\ bytesOut.tag = "ok"
        /\ U32AsUsize(RecLenWord(bytesOut.bytes)) = LimbsAddOne(lenIn)

\* the record with a declared length of 1 and a zero byte after its header
WithOneZeroByte(buf) == Take(buf, 12) \o U32ToLeBytes(U32(1)) \o <<0>>

\* C18: a record that declares the argument length 0 decodes to the empty
\* argument and consumes its 16 header bytes only, so that what follows the
\* length word is left for the next record; the same header with a declared
\* length of 1 and a zero byte decodes to the same Operation.
C18_ZeroLengthShorthand ==
    (/\ pc = "decode_operation"
     /\ Len(bytesIn) >= 16
     /\ RecWord1(bytesIn) # U32Max
     /\ OpCodeTryFrom(RecOpWord(bytesIn)).ok
     /\ RecLenWord(bytesIn) = U32(0)) =>
        /\ opOut.ok
        /\ opOut.op.arg = <<>>
        /\ opOut.rest = Drop(bytesIn, 16)
        /\ OperationTryFrom(WithOneZeroByte(bytesIn)).ok
        /\ OperationTryFrom(WithOneZeroByte(bytesIn)).op = opOut.op

\* a record that declares length 0 in front of the bytes "a", NUL has
\* decoded to the empty argument and has left the two bytes unread
C18_Witness ==
    /\ pc = "decode_operation"
    /\ Len(bytesIn) = 18
    /\ RecLenWord(bytesIn) = U32(0)
    /\ Drop(bytesIn, 16) = <<97, 0>>
    /\ opOut.ok
    /\ opOut.op = Operation("DeleteFile", <<>>)
    /\ opOut.rest = <<97, 0>>

-----------------------------------------------------------------------------
(* Properties of the Response codec *)

\* C2: decoding the encoding of a Response whose operations hold no zero
\* byte in their arguments succeeds and gives back the same operations in
\* the same order.
C2_ResponseRoundTrip ==
    (pc = "encode_response" /\ \A i \in 1..Len(opsIn) : ~HasNul(opsIn[i].arg)) =>
        /\ bytesOut.tag = "ok"
        /\ ResponseTryFrom(bytesOut.bytes).ok
        /\ ResponseTryFrom(bytesOut.bytes).ops = opsIn

C2_Witness ==
    /\ pc = "encode_response"
    /\ opsIn = <<Operation("MoveAndExit", <<233>>), Operation("DeleteFile", <<>>)>>
    /\ ResponseTryFrom(bytesOut.bytes).ops = opsIn

\* 17 + the argument byte length, summed over the operations
RECURSIVE RecordBytesSum(_)
RecordBytesSum(ops) ==
    IF ops = <<>> THEN 0
    ELSE 17 + StrLen(Head(ops).arg) + RecordBytesSum(Tail(ops))

\* C3: the first four bytes of an encoded Response are its total length,
\* little-endian, which is 8 plus 17 + the argument byte length for each
\* operation; the placeholder first written there is not in the output.
C3_LengthPrefix ==
    pc = "encode_response" =>
        LET b == bytesOut.bytes
            total == 8 + RecordBytesSum(opsIn)
        IN  /\ bytesOut.tag = "ok"
            /\ Len(b) = total
            /\ SubSeq(b, 1, 4) = <<total % 256, total \div 256, 0, 0>>
            /\ SubSeq(b, 1, 4) # LenPlaceholder

C3_Witness ==
    /\ pc = "encode_response"
    /\ Len(opsIn) = 2
    /\ StrLen(opsIn[1].arg) = 2
    /\ SubSeq(bytesOut.bytes, 1, 4) = <<8 + 19 + 17 + StrLen(opsIn[2].arg), 0, 0, 0>>

\* C4: when a prefix of the buffer is a Response that decodes, the bytes
\* after it change nothing: the buffer decodes to the same operations.
C4_TrailingBytesIgnored ==
    pc = "decode_response" =>
        \A k \in 0..Len(bytesIn) :
            LET r == ResponseTryFrom(Take(bytesIn, k))
            IN  r.ok => respOut.ok /\ respOut.ops = r.ops

C4_Witness ==
    /\ pc = "decode_response"
    /\ Len(bytesIn) = 45
    /\ Take(bytesIn, 44)
           = ResponseIntoBytes(<<Operation("DeleteFile", <<97, 98>>),
                                 Operation("DownloadExe1", <<>>)>>, FALSE).bytes
    /\ Drop(bytesIn, 44) = <<97>>
    /\ respOut.ok
    /\ Len(respOut.ops) = 2

\* C5: a buffer whose declared total length is greater than the number of
\* bytes after the length word plus 4 is rejected, also when the count and
\* the records after it are well-formed.
C5_OverLengthRejected ==
    (pc = "decode_response" /\ Len(bytesIn) >= 4) =>
        (U32GtNat(RecWord1(bytesIn), (Len(bytesIn) - 4) + 4) => ~respOut.ok)

C5_Witness ==
    /\ pc = "decode_response"
    /\ Len(bytesIn) = 44
    /\ RecWord1(bytesIn) = U32(45)
    /\ ResponseTryFrom(WithWord1(bytesIn, U32(44))).ok
    /\ Len(ResponseTryFrom(WithWord1(bytesIn, U32(44))).ops) = 2
    /\ ~respOut.ok

\* the operation count of a Response buffer and the bytes after it
RespCount(buf) == U32FromLeBytes(SubSeq(buf, 5, 8))

RespBody(buf) == Drop(buf, 8)

\* the buffer passes the reads and the check before the loop
HeaderPasses(buf) == Len(buf) >= 8 /\ ~U32GtNat(RecWord1(buf), Len(buf))

\* the decode of the i-th record of s, the i - 1 before it having decoded
RECURSIVE NthRecord(_, _)
NthRecord(s, i) ==
    IF i = 1 THEN OperationTryFrom(s)
    ELSE IF ~OperationTryFrom(s).ok THEN OpErr
    ELSE NthRecord(OperationTryFrom(s).rest, i - 1)

\* C17: a Response that decodes has as many operations as the count says,
\* the i-th being the decode of the i-th record of the buffer; if one of the
\* records up to the count does not decode, or the buffer ends before the
\* count is reached, the decode is a rejection and returns no operation.
C17_CountAndOrder ==
    pc = "decode_response" =>
        /\ respOut.ok =>
            /\ HeaderPasses(bytesIn)
            /\ U32EqNat(RespCount(bytesIn), Len(respOut.ops))
            /\ \A i \in 1..Len(respOut.ops) :
                /\ NthRecord(RespBody(bytesIn), i).ok
                /\ NthRecord(RespBody(bytesIn), i).op = respOut.ops[i]
        /\ ~respOut.ok => respOut.ops = <<>>
        /\ (/\ HeaderPasses(bytesIn)
            /\ \E i \in 1..(Len(bytesIn) \div 16 + 1) :
                /\ U32GtNat(RespCount(bytesIn), i - 1)
                /\ ~NthRecord(RespBody(bytesIn), i).ok)
                => ~respOut.ok

\* a buffer with two records that decode and a count of three has been
\* rejected, and nothing of the two is returned
C17_Witness ==
    /\ pc = "decode_response"
    /\ HeaderPasses(bytesIn)
    /\ RespCount(bytesIn) = U32(3)
    /\ NthRecord(RespBody(bytesIn), 2).ok
    /\ ~NthRecord(RespBody(bytesIn), 3).ok
    /\ respOut = RespErr

\* C19: the declared total length is only compared with the length of the
\* buffer: a buffer whose declared length is at most its length decodes to
\* the same outcome with every other declared length that is at most its
\* length in the first four bytes, 0 and lengths smaller than the bytes the
\* decoder consumes included.
C19_DeclaredLengthIsUpperBound ==
    (/\ pc = "decode_response"
     /\ Len(bytesIn) >= 4
     /\ ~U32GtNat(RecWord1(bytesIn), Len(bytesIn))) =>
        \A d \in 0..Len(bytesIn) :
            ResponseTryFrom(WithWord1(bytesIn, U32(d))) = respOut

\* a buffer of two records that declares a total length of 0 has decoded to
\* the two operations
C19_Witness ==
    /\ pc = "decode_response"
    /\ Len(bytesIn) >= 4
    /\ RecWord1(bytesIn) = U32(0)
    /\ respOut.ok
    /\ Len(respOut.ops) = 2
    /\ ResponseTryFrom(WithWord1(bytesIn, U32(Len(bytesIn)))) = respOut

-----------------------------------------------------------------------------
(* Properties of the packet parser *)

\* where the three fixed 16-bit fields of an Information packet start: after
\* the identifier, the domain fragment, the header and two 16-bit fields
ReservedOffset(buf) ==
    LET id == read_u32(BodyReaderNew(buf))
        domain == read_string(id.rd)
        h == PacketHeaderFromReader(domain.rd)
    IN  h.rd.pos + 4

\* the buffer is an Information packet long enough to hold the three fields
HasReservedFields(buf) ==
    LET id == read_u32(BodyReaderNew(buf))
        domain == read_string(id.rd)
        h == PacketHeaderFromReader(domain.rd)
    IN  /\ id.ok
        /\ id.val = PacketIdInformation
        /\ domain.ok
        /\ h.st = "some"
        /\ Len(buf) >= h.rd.pos + 10

\* the three fields, as bytes
ReservedBytes(buf) == SubSeq(buf, ReservedOffset(buf) + 1, ReservedOffset(buf) + 6)

\* the buffer with the three fields set to zero
WithReservedZero(buf) ==
    Take(buf, ReservedOffset(buf)) \o <<0, 0, 0, 0, 0, 0>>
    \o Drop(buf, ReservedOffset(buf) + 6)

\* C10 as stated: an Information packet that is well-formed but for a
\* non-zero value in one of the three fixed 16-bit fields makes the decode
\* return a failure to its caller; it returns no packet and does not panic.
C10_ReservedNonZeroIsFailure ==
    (/\ pc = "decode_packet"
     /\ HasReservedFields(bytesIn)
     /\ ReservedBytes(bytesIn) # <<0, 0, 0, 0, 0, 0>>
     /\ PacketTryFrom(WithReservedZero(bytesIn)).tag = "ok")
        => pktOut.tag = "err"

\* the identifier word of a packet buffer, and the buffer with another one
PktIdWord(buf) == U32FromLeBytes(Take(buf, 4))

WithPktIdWord(buf, w) == U32ToLeBytes(w) \o Drop(buf, 4)

\* C11: the decode returns a packet only for the identifier 0x00280012, and
\* then a Beacon, or 0x00270012, and then an Information packet; a buffer
\* with any other identifier, 0x00270013 included, is rejected.
C11_OnlyTwoIdentifiers ==
    pc = "decode_packet" =>
        /\ pktOut.tag = "ok" =>
            /\ Len(bytesIn) >= 4
            /\ \/ /\ PktIdWord(bytesIn) = PacketIdBeacon
                  /\ pktOut.packet.variant = "Beacon"
               \/ /\ PktIdWord(bytesIn) = PacketIdInformation
                  /\ pktOut.packet.variant = "Information"
        /\ (/\ Len(bytesIn) >= 4
            /\ PktIdWord(bytesIn) \notin {PacketIdBeacon, PacketIdInformation})
                => pktOut.tag = "err"

\* a buffer with the identifier 0x00270013 that is a well-formed Beacon but
\* for the identifier has been rejected
C11_Witness ==
    /\ pc = "decode_packet"
    /\ Len(bytesIn) >= 4
    /\ PktIdWord(bytesIn) = PacketIdUnknown
    /\ PacketTryFrom(WithPktIdWord(bytesIn, PacketIdBeacon)).tag = "ok"
    /\ pktOut.tag = "err"

\* the domain fragment field of a packet buffer, as read_string reads it
PktDomain(buf) == read_string(read_u32(BodyReaderNew(buf)).rd)

\* C12: a buffer whose domain fragment cannot be read or is not "ckav.ru" is
\* rejected by the statement that checks the fragment, before the identifier
\* is mapped and before a header or tail field is read: the outcome is a
\* rejection whatever the identifier and the rest of the buffer are.
C12_DomainCheckedFirst ==
    (pc = "decode_packet" /\ Len(bytesIn) >= 4) =>
        /\ (~PktDomain(bytesIn).ok \/ PktDomain(bytesIn).val # DomainFragment)
            => (pktOut.tag = "err" /\ pktOut.at = "domain")
        /\ pktOut.at \in {"packet_id", "match", "tail"}
            => (PktDomain(bytesIn).ok /\ PktDomain(bytesIn).val = DomainFragment)

\* an Information buffer whose tail parser would panic on a fixed field, with
\* a wrong domain fragment, has been rejected at the fragment
C12_Witness ==
    /\ pc = "decode_packet"
    /\ Len(bytesIn) >= 4
    /\ PktIdWord(bytesIn) = PacketIdInformation
    /\ PktDomain(bytesIn).ok
    /\ PktDomain(bytesIn).val # DomainFragment
    /\ PacketDispatch(PacketIdTryFrom(PktIdWord(bytesIn)),
                      PktDomain(bytesIn).rd).tag = "panic"
    /\ pktOut = PktErrAt("domain")

\* what the tail parser of the buffer's identifier returns, for a buffer
\* whose identifier and domain fragment are read
PktTail(buf) ==
    IF PktIdWord(buf) = PacketIdBeacon
    THEN BeaconPacketFromReader(PktDomain(buf).rd)
    ELSE InformationPacketFromReader(PktDomain(buf).rd)

\* the buffer reaches a tail parser
ReachesTail(buf) ==
    /\ Len(buf) >= 4
    /\ PktIdWord(buf) \in {PacketIdBeacon, PacketIdInformation}
    /\ PktDomain(buf).ok
    /\ PktDomain(buf).val = DomainFragment

\* the field of the packet that is read last is the one at the end of the
\* bytes the parser consumed
LastFieldRead(buf, packet) ==
    IF packet.variant = "Beacon"
    THEN \E p \in 0..Len(buf) :
            /\ read_string([buf |-> buf, pos |-> p]).ok
            /\ read_string([buf |-> buf, pos |-> p]).rd.pos = PktTail(buf).rd.pos
            /\ read_string([buf |-> buf, pos |-> p]).val
                   = packet.truncated_guid_hash
    ELSE \E p \in 0..Len(buf) :
            /\ read_vec([buf |-> buf, pos |-> p]).ok
            /\ read_vec([buf |-> buf, pos |-> p]).rd.pos = PktTail(buf).rd.pos
            /\ read_vec([buf |-> buf, pos |-> p]).val = packet.buf_2

\* C16: every strict prefix of a buffer that decodes to a packet and has no
\* bytes after it is rejected; when a field of the header or the tail is not
\* read the decode is a rejection; a decode that returns no packet returns
\* nothing of one, and a returned packet has its last field read from the
\* buffer.
C16_AllOrNothing ==
    pc = "decode_packet" =>
        /\ (pktOut.tag = "ok" /\ PktTail(bytesIn).rd.pos = Len(bytesIn)) =>
            \A k \in 0..(Len(bytesIn) - 1) :
                PacketTryFrom(Take(bytesIn, k)).tag = "err"
        /\ (ReachesTail(bytesIn) /\ PktTail(bytesIn).st = "none") =>
            pktOut.tag = "err"
        /\ pktOut.tag # "ok" => pktOut.packet = NoPacket
        /\ pktOut.tag = "ok" =>
            /\ ReachesTail(bytesIn)
            /\ PktTail(bytesIn).st = "some"
            /\ LastFieldRead(bytesIn, pktOut.packet)

\* the well-formed Information packet without its last byte has been rejected
\* by the tail parser
C16_Witness ==
    /\ pc = "decode_packet"
    /\ bytesIn = Take(SampleInformation, Len(SampleInformation) - 1)
    /\ PacketTryFrom(SampleInformation).tag = "ok"
    /\ pktOut = PktErrAt("tail")

-----------------------------------------------------------------------------
(* Properties of the BodyReader *)

\* the reads of a fixed number of bytes
FixedReads == {"read_bytes_exact", "read_u16", "read_u32", "read_bool"}

\* the bytes that remained when the last read was made
RemainingBefore == Len(bodyReader.buf) - readOut.from

\* the last read was a fixed-size read with enough bytes left: it has
\* returned the next n bytes and moved the position by n
FixedReadSucceeded ==
    /\ readOut.ok
    /\ bodyReader.pos = readOut.from + readOut.n
    /\ readOut.op = "read_bytes_exact" =>
        readOut.val = SubSeq(bodyReader.buf, readOut.from + 1,
                             readOut.from + readOut.n)
    /\ readOut.op = "read_u16" =>
        readOut.val = bodyReader.buf[readOut.from + 1]
                      + 256 * bodyReader.buf[readOut.from + 2]

\* C13 as stated: a fixed-size read of n bytes returns the next n bytes and
\* advances the position by n when n bytes remain; when fewer remain it
\* fails and the position is where it was before the read.
C13_FailedReadKeepsPosition ==
    (pc = "reader" /\ readOut.op \in FixedReads) =>
        IF readOut.n <= RemainingBefore THEN FixedReadSucceeded
        ELSE ~readOut.ok /\ bodyReader.pos = readOut.from

\* C13 amended: a fixed-size read of n bytes returns the next n bytes and
\* advances the position by n when n bytes remain; when fewer remain it
\* fails, and the position is then either where it was or at the end of the
\* buffer, never past it.
C13_FailedReadPosition ==
    (pc = "reader" /\ readOut.op \in FixedReads) =>
        IF readOut.n <= RemainingBefore THEN FixedReadSucceeded
        ELSE /\ ~readOut.ok
             /\ bodyReader.pos \in {readOut.from, Len(bodyReader.buf)}

\* a read of more bytes than the one that remained has failed and has left
\* the reader at the end of the buffer
C13_Witness ==
    /\ pc = "reader"
    /\ readOut.op = "read_bytes_exact"
    /\ RemainingBefore = 1
    /\ readOut.n = 2
    /\ ~readOut.ok
    /\ bodyReader.pos = Len(bodyReader.buf)

\* the kind and the declared length of the string field the last read
\* started at, and the bytes after them up to the position of the reader
FieldKind ==
    bodyReader.buf[readOut.from + 1] + 256 * bodyReader.buf[readOut.from + 2]

FieldLenWord ==
    U32FromLeBytes(SubSeq(bodyReader.buf, readOut.from + 3, readOut.from + 6))

FieldBody == SubSeq(bodyReader.buf, readOut.from + 7, bodyReader.pos)

\* C14: read_string fails exactly when fewer than 6 bytes remain for the
\* kind and the length, or fewer bytes than the declared length remain after
\* them; otherwise it succeeds, whatever the kind and the bytes are, and
\* consumes 6 bytes and the declared length.
C14_StringFailsOnlyWhenShort ==
    (pc = "reader" /\ readOut.op = "read_string") =>
        IF RemainingBefore < 6 THEN ~readOut.ok
        ELSE IF U32GtNat(FieldLenWord, RemainingBefore - 6) THEN ~readOut.ok
        ELSE /\ readOut.ok
             /\ U32EqNat(FieldLenWord, bodyReader.pos - readOut.from - 6)

\* a UTF-16LE field of one byte has been read: it has consumed 7 bytes and
\* the text is one replacement character
C14_Witness ==
    /\ pc = "reader"
    /\ readOut.op = "read_string"
    /\ readOut.ok
    /\ FieldKind = 1
    /\ FieldBody = <<65>>
    /\ bodyReader.pos = readOut.from + 7
    /\ readOut.val = <<Replacement>>

\* the encoding the kind names, and its own byte order mark
KindEncoding(kind) == IF kind = 0 THEN "UTF-8" ELSE "UTF-16LE"

OwnMark(enc) == IF enc = "UTF-8" THEN <<239, 187, 191>> ELSE <<255, 254>>

WithoutOwnMark(enc, b) ==
    IF StartsWith(b, OwnMark(enc)) THEN Drop(b, Len(OwnMark(enc))) ELSE b

\* C15 as stated: the text read_string returns is the bytes of the field
\* decoded in the encoding the kind names, UTF-8 for kind 0 and UTF-16LE for
\* every other kind, whatever the first bytes are (the byte order mark of
\* that same encoding may be left out of the text).
C15_EncodingByKindAlone ==
    (pc = "reader" /\ readOut.op = "read_string" /\ readOut.ok) =>
        readOut.val \in
            {DecodeWithoutBom(KindEncoding(FieldKind), FieldBody),
             DecodeWithoutBom(KindEncoding(FieldKind),
                              WithoutOwnMark(KindEncoding(FieldKind),
                                             FieldBody))}

====
